---- MODULE Spec2Model ----
(***************************************************************************)
(* RPN calculator of src/src/rpncalculator.rs: the operator registry, the   *)
(* fixed-arity and raw operator forms of new_operator!, and the evaluation  *)
(* engine (evaluate / parse_token / parse_and_push / top).                  *)
(*                                                                         *)
(* A line is a sequence of one-character strings.  An f64 is a record       *)
(* [k, n, d]: k = "fin" is the f64 nearest to the rational n/d (in lowest   *)
(* terms, d > 0, n = 0 being +0.0), which is n/d itself when d is a power   *)
(* of two; k = "nzero" is -0.0, k = "pinf" / "ninf" are the infinities and  *)
(* k = "nan" is NaN.  Arithmetic follows IEEE-754 for signs, zeros,         *)
(* infinities and NaN.  A finite result is given as k = "fin" where the     *)
(* rounding of the code is known to land on the f64 nearest to the exact    *)
(* rational; elsewhere it is k = "rounded", the f64 the operation n = <<op, *)
(* x, y>> rounds to, which need not be the f64 of any short literal         *)
(* (0.1 + 0.2 is not the f64 of 0.3).  Magnitudes stay far from overflow    *)
(* and underflow.  The state machines below only follow stacks of small     *)
(* integers (InRange), on which f64 arithmetic is exact.                    *)
(***************************************************************************)
EXTENDS Integers, Sequences, FiniteSets, TLC

VARIABLES stack, operators, given, last, other, repl

vars == <<stack, operators, given, last, other, repl>>

----------------------------------------------------------------------------
(* Bounds of the exploration.                                               *)

\* Longest stack the exploration lets a call leave behind.
MaxStack == 2

\* Most tokens on one input line.
MaxTokens == 3

\* Largest numerator magnitude and denominator of an explored finite value.
MaxNum == 2

----------------------------------------------------------------------------
(* f64 values.                                                              *)

Abs(x) == IF x < 0 THEN -x ELSE x

RECURSIVE GCD(_, _)
GCD(a, b) == IF b = 0 THEN a ELSE GCD(b, a % b)

Special(kind) == [k |-> kind, n |-> 0, d |-> 1]

NaN == Special("nan")
PInf == Special("pinf")
NInf == Special("ninf")
NZero == Special("nzero")

\* The finite non-negative-zero value num/den (den # 0), in lowest terms.
Fin(num, den) ==
    LET g == GCD(Abs(num), Abs(den))
        s == IF den < 0 THEN -1 ELSE 1
    IN  [k |-> "fin", n |-> s * (num \div g), d |-> s * (den \div g)]

\* The finite value with the given sign and magnitude num/den (num, den >= 0):
\* a zero magnitude keeps its sign, as an IEEE zero does.
Signed(neg, num, den) ==
    IF num = 0 THEN (IF neg THEN NZero ELSE Fin(0, 1))
    ELSE Fin(IF neg THEN -num ELSE num, den)

\* m > 0 is a power of two.
RECURSIVE IsPow2(_)
IsPow2(m) == m = 1 \/ (m % 2 = 0 /\ IsPow2(m \div 2))

\* The finite value is the rational n/d itself: no rounding went into it.
IsDyadic(v) == v.k = "fin" /\ IsPow2(v.d)

\* The finite value is plus or minus a power of two: scaling by it is exact.
IsPow2Value(v) == v.k = "fin" /\ v.n # 0 /\ IsPow2(Abs(v.n)) /\ IsPow2(v.d)

\* The f64 that op rounds to on the f64 values x and y.
Rounded(op, x, y) == [k |-> "rounded", n |-> <<op, x, y>>, d |-> 1]

IsZero(v) == v.k = "nzero" \/ (v.k = "fin" /\ v.n = 0)
IsInf(v) == v.k \in {"pinf", "ninf"}
IsNeg(v) == v.k \in {"nzero", "ninf"} \/ (v.k = "fin" /\ v.n < 0)
Inf(neg) == IF neg THEN NInf ELSE PInf

\* IEEE-754 negation (unary minus).
Neg(v) ==
    CASE v.k = "nan" -> NaN
      [] v.k = "pinf" -> NInf
      [] v.k = "ninf" -> PInf
      [] v.k = "nzero" -> Fin(0, 1)
      [] v.k = "rounded" -> Rounded("neg", v, v)
      [] OTHER -> Signed(~IsNeg(v), Abs(v.n), v.d)

\* x + y on f64 (round-to-nearest: an exact zero sum of opposite signs is +0).
\* The sum of two finite values is the f64 nearest to the exact sum when
\* both are exact, and when they are equal or opposite.
FAdd(x, y) ==
    CASE x.k = "nan" \/ y.k = "nan" -> NaN
      [] x.k = "rounded" \/ y.k = "rounded" -> Rounded("add", x, y)
      [] IsInf(x) /\ IsInf(y) -> IF x.k = y.k THEN x ELSE NaN
      [] IsInf(x) -> x
      [] IsInf(y) -> y
      [] IsZero(x) /\ IsZero(y) ->
            IF x.k = "nzero" /\ y.k = "nzero" THEN NZero ELSE Fin(0, 1)
      [] IsZero(x) -> y
      [] IsZero(y) -> x
      [] (IsDyadic(x) /\ IsDyadic(y)) \/ x = y \/ x = Neg(y) ->
            Fin(x.n * y.d + y.n * x.d, x.d * y.d)
      [] OTHER -> Rounded("add", x, y)

\* x - y on f64.
FSub(x, y) == FAdd(x, Neg(y))

\* x * y on f64.  The product of two finite values is the f64 nearest to
\* the exact product when both are exact, and when one is zero or a power
\* of two.
FMul(x, y) ==
    LET neg == IsNeg(x) # IsNeg(y) IN
    CASE x.k = "nan" \/ y.k = "nan" -> NaN
      [] x.k = "rounded" \/ y.k = "rounded" -> Rounded("mul", x, y)
      [] (IsInf(x) /\ IsZero(y)) \/ (IsZero(x) /\ IsInf(y)) -> NaN
      [] IsInf(x) \/ IsInf(y) -> Inf(neg)
      [] \/ IsDyadic(x) /\ IsDyadic(y)
         \/ IsZero(x) \/ IsZero(y)
         \/ IsPow2Value(x) \/ IsPow2Value(y) ->
            Signed(neg, Abs(x.n) * Abs(y.n), x.d * y.d)
      [] OTHER -> Rounded("mul", x, y)

\* x / y on f64: division by zero gives an infinity or NaN, never an error.
\* The quotient of two finite values is the f64 nearest to the exact
\* quotient when both are exact, and when x is zero, y a power of two or
\* the two of equal magnitude.
FDiv(x, y) ==
    LET neg == IsNeg(x) # IsNeg(y) IN
    CASE x.k = "nan" \/ y.k = "nan" -> NaN
      [] x.k = "rounded" \/ y.k = "rounded" -> Rounded("div", x, y)
      [] IsInf(x) /\ IsInf(y) -> NaN
      [] IsZero(x) /\ IsZero(y) -> NaN
      [] IsInf(x) -> Inf(neg)
      [] IsInf(y) -> Signed(neg, 0, 1)
      [] IsZero(y) -> Inf(neg)
      [] \/ IsDyadic(x) /\ IsDyadic(y)
         \/ IsZero(x) \/ IsPow2Value(y)
         \/ x = y \/ x = Neg(y) ->
            Signed(neg, Abs(x.n) * y.d, x.d * Abs(y.n))
      [] OTHER -> Rounded("div", x, y)

----------------------------------------------------------------------------
(* Text: str::split_whitespace and <f64 as FromStr>::from_str.              *)

Pop(s) == IF s = <<>> THEN s ELSE SubSeq(s, 1, Len(s) - 1)

\* Mutant: only the space separates tokens.
IsWhitespace_space(c) == c = " "

\* char::is_whitespace, the Unicode White_Space property: space, tab, line
\* feed, carriage return, form feed, vertical tab (U+000B), next line
\* (U+0085), no-break space (U+00A0) and ogham space mark (U+1680).  The
\* remaining White_Space characters (U+2000 to U+200A, U+2028, U+2029,
\* U+202F, U+205F, U+3000) cannot be written in a string of this module.
IsWhitespace(c) ==
    c \in {" ", "\t", "\n", "\r", "\f", "", "", " ", " "}

IsDigit(c) == c \in {"0", "1", "2", "3", "4", "5", "6", "7", "8", "9"}

DigitVal(c) ==
    LET ds == <<"0", "1", "2", "3", "4", "5", "6", "7", "8", "9">>
    IN  (CHOOSE i \in 1..10 : ds[i] = c) - 1

\* ASCII lower-casing of the letters the float grammar knows.
Lower(c) ==
    CASE c = "I" -> "i" [] c = "N" -> "n" [] c = "F" -> "f" [] c = "T" -> "t"
      [] c = "Y" -> "y" [] c = "A" -> "a" [] c = "E" -> "e" [] OTHER -> c

LowerAll(s) == [i \in 1..Len(s) |-> Lower(s[i])]

RECURSIVE Pow10(_)
Pow10(e) == IF e = 0 THEN 1 ELSE 10 * Pow10(e - 1)

\* Index just past the run of decimal digits of s that starts at index i.
RECURSIVE ScanDigits(_, _)
ScanDigits(s, i) ==
    IF i <= Len(s) /\ IsDigit(s[i]) THEN ScanDigits(s, i + 1) ELSE i

\* The number written by the digits among s[from .. to-1], continuing acc.
RECURSIVE DigitsValue(_, _, _, _)
DigitsValue(s, from, to, acc) ==
    IF from >= to THEN acc
    ELSE DigitsValue(s, from + 1, to,
                     IF IsDigit(s[from]) THEN 10 * acc + DigitVal(s[from]) ELSE acc)

\* The tokens of a line: maximal runs of non-whitespace, in order; cur is the
\* token being read and acc the tokens already complete.
RECURSIVE SplitFrom(_, _, _, _)
SplitFrom(input, i, cur, acc) ==
    IF i > Len(input) THEN (IF cur = <<>> THEN acc ELSE Append(acc, cur))
    ELSE IF IsWhitespace(input[i])
         THEN SplitFrom(input, i + 1, <<>>, IF cur = <<>> THEN acc ELSE Append(acc, cur))
         ELSE SplitFrom(input, i + 1, Append(cur, input[i]), acc)

split_whitespace(input) == SplitFrom(input, 1, <<>>, <<>>)

\* token.parse::<f64>():  Sign? ( 'inf' | 'infinity' | 'nan' | Number ) with
\* Number ::= ( Digit+ | Digit+ '.' Digit* | Digit* '.' Digit+ ) Exp? and
\* Exp ::= 'e' Sign? Digit+ , letters in either case.
parse_f64(token) ==
    LET len    == Len(token)
        signed == len > 0 /\ token[1] \in {"+", "-"}
        neg    == len > 0 /\ token[1] = "-"
        start  == IF signed THEN 2 ELSE 1
        i1     == ScanDigits(token, start)
        hasDot == i1 <= len /\ token[i1] = "."
        i2     == IF hasDot THEN ScanDigits(token, i1 + 1) ELSE i1
        nint   == i1 - start
        nfrac  == IF hasDot THEN i2 - (i1 + 1) ELSE 0
        hasExp == i2 <= len /\ Lower(token[i2]) = "e"
        es     == i2 + 1
        esign  == es <= len /\ token[es] \in {"+", "-"}
        eneg   == es <= len /\ token[es] = "-"
        estart == IF esign THEN es + 1 ELSE es
        i3     == ScanDigits(token, estart)
        end    == IF hasExp THEN i3 ELSE i2
        isNum  == nint + nfrac > 0 /\ (hasExp => i3 > estart) /\ end = len + 1
        mant   == DigitsValue(token, start, i2, 0)
        eabs   == IF hasExp THEN DigitsValue(token, estart, i3, 0) ELSE 0
        exp10  == (IF eneg THEN -eabs ELSE eabs) - nfrac
        word   == LowerAll(SubSeq(token, start, len))
    IN  IF isNum
        THEN [ok |-> TRUE,
              v  |-> IF exp10 >= 0 THEN Signed(neg, mant * Pow10(exp10), 1)
                     ELSE Signed(neg, mant, Pow10(-exp10))]
        ELSE IF word \in {<<"i", "n", "f">>, <<"i", "n", "f", "i", "n", "i", "t", "y">>}
        THEN [ok |-> TRUE, v |-> Inf(neg)]
        ELSE IF word = <<"n", "a", "n">>
        THEN [ok |-> TRUE, v |-> NaN]
        ELSE [ok |-> FALSE, v |-> NaN]

----------------------------------------------------------------------------
(* Operators: the two forms of new_operator! and the registries built with  *)
(* them.  An operator function is data [shape, arity, code]: shape "fixed"  *)
(* is the form with a variable list (arity = number of variables, code =    *)
(* the block over them), shape "raw" is the form handed the stack itself.   *)

Ten == Fin(10, 1)

FixedOp(arity, code) == [shape |-> "fixed", arity |-> arity, code |-> code]
RawOp(code) == [shape |-> "raw", arity |-> 0, code |-> code]

\* Mutant: the operands of the default operators taken in the other order.
Block_reversed(code, args) ==
    CASE code = "add"  -> FAdd(args[1], args[2])
      [] code = "sub"  -> FSub(args[1], args[2])
      [] code = "mul"  -> FMul(args[1], args[2])
      [] code = "div"  -> FDiv(args[1], args[2])
      [] code = "zero" -> Fin(0, 1)
      [] code = "ten"  -> Fin(10, 1)

\* The $code block of a fixed-arity operator over its variables, args[1] being
\* the first declared variable.  The default operators declare [y, x].
Block(code, args) ==
    CASE code = "add"  -> FAdd(args[2], args[1])
      [] code = "sub"  -> FSub(args[2], args[1])
      [] code = "mul"  -> FMul(args[2], args[1])
      [] code = "div"  -> FDiv(args[2], args[1])
      [] code = "zero" -> Fin(0, 1)
      [] code = "ten"  -> Ten

\* Mutant: the first declared variable takes the deepest operand.
RECURSIVE BindVars_bottom_up(_, _, _, _)
BindVars_bottom_up(s, i, nvars, args) ==
    IF nvars = 0 THEN [ok |-> TRUE, i |-> i, args |-> args]
    ELSE IF i = 0 THEN [ok |-> FALSE, i |-> i, args |-> args]
    ELSE BindVars_bottom_up(s, i - 1, nvars - 1, <<s[i]>> \o args)

\* The repetition over the declared variables: each takes s[i - 1] (0-based)
\* and lowers i, or the whole operator fails once i = 0.
RECURSIVE BindVars(_, _, _, _)
BindVars(s, i, nvars, args) ==
    IF nvars = 0 THEN [ok |-> TRUE, i |-> i, args |-> args]
    ELSE IF i = 0 THEN [ok |-> FALSE, i |-> i, args |-> args]
    ELSE BindVars(s, i - 1, nvars - 1, Append(args, s[i]))

RECURSIVE PopN(_, _)
PopN(s, n) == IF n = 0 THEN s ELSE PopN(Pop(s), n - 1)

\* Mutant: every operand is popped as it is read, before the arity is known
\* to be met.
FixedOpFn_partial(op, s) ==
    LET b == BindVars(s, Len(s), op.arity, <<>>) IN
    IF ~b.ok THEN [stack |-> PopN(s, Len(b.args)), res |-> "NotEnoughOperands"]
    ELSE [stack |-> Append(PopN(s, Len(s) - b.i), Block(op.code, b.args)),
          res |-> "Ok"]

\* Mutant: an operator without variables still wants a value on the stack.
FixedOpFn_nonempty(op, s) ==
    LET b == BindVars(s, Len(s), op.arity, <<>>) IN
    IF ~b.ok \/ s = <<>> THEN [stack |-> s, res |-> "NotEnoughOperands"]
    ELSE LET n == Len(s) - b.i
         IN  [stack |-> Append(PopN(s, n), Block(op.code, b.args)), res |-> "Ok"]

\* opfn of the fixed-arity form.
FixedOpFn(op, s) ==
    LET b == BindVars(s, Len(s), op.arity, <<>>) IN
    IF ~b.ok THEN [stack |-> s, res |-> "NotEnoughOperands"]
    ELSE LET n == Len(s) - b.i
         IN  [stack |-> Append(PopN(s, n), Block(op.code, b.args)), res |-> "Ok"]

\* opfn of the raw form, for the blocks callers give it:
\*   "push10"     { s.push(10.0); Ok(()) }
\*   "pop"        { s.pop(); Ok(()) }
\*   "pop_or_err" { s.pop().ok_or(NotEnoughOperands)?; Ok(()) }
\*   "drop2"      { s.pop().ok_or(NotEnoughOperands)?;
\*                  s.pop().ok_or(NotEnoughOperands)?; Ok(()) }
\*   "quit"       { Result::Err(RpnCalculatorError::Quit) }
RawOpFn(op, s) ==
    CASE op.code = "push10" -> [stack |-> Append(s, Ten), res |-> "Ok"]
      [] op.code = "pop" -> [stack |-> Pop(s), res |-> "Ok"]
      [] op.code = "pop_or_err" ->
            IF s = <<>> THEN [stack |-> s, res |-> "NotEnoughOperands"]
            ELSE [stack |-> Pop(s), res |-> "Ok"]
      [] op.code = "drop2" ->
            IF Len(s) < 2 THEN [stack |-> Pop(s), res |-> "NotEnoughOperands"]
            ELSE [stack |-> Pop(Pop(s)), res |-> "Ok"]
      [] op.code = "quit" -> [stack |-> s, res |-> "Quit"]

\* Mutant: the engine restores the stack when a raw operator fails.
OpFn_rollback(op, s) ==
    IF op.shape = "fixed" THEN FixedOpFn(op, s)
    ELSE LET r == RawOpFn(op, s) IN
         IF r.res = "Ok" THEN r ELSE [stack |-> s, res |-> r.res]

OpFn(op, s) == IF op.shape = "fixed" THEN FixedOpFn(op, s) ELSE RawOpFn(op, s)

\* Mutant: an insertion under a bound symbol keeps the earlier operator.
Insert_keep(ops, symbol, op) ==
    [k \in DOMAIN ops \cup {symbol} |-> IF k \in DOMAIN ops THEN ops[k] ELSE op]

\* BTreeMap::insert: bind symbol to op, replacing an earlier binding.
Insert(ops, symbol, op) ==
    [k \in DOMAIN ops \cup {symbol} |-> IF k = symbol THEN op ELSE ops[k]]

EmptyMap == [k \in {} |-> FixedOp(0, "zero")]

default_operators ==
    Insert(Insert(Insert(Insert(EmptyMap,
        <<"+">>, FixedOp(2, "add")),
        <<"-">>, FixedOp(2, "sub")),
        <<"*">>, FixedOp(2, "mul")),
        <<"/">>, FixedOp(2, "div"))

\* A registry a caller builds from scratch, without the default operators:
\* the "?" of tests::should_use_operators_passed_at_construction_time and two
\* stack primitives written with the raw form.
caller_operators ==
    Insert(Insert(Insert(EmptyMap,
        <<"?">>, RawOp("push10")),
        <<"p">>, RawOp("pop_or_err")),
        <<"d">>, RawOp("drop2"))

\* The registry of the REPL: the default operators and "q".
main_operators == Insert(default_operators, <<"q">>, RawOp("quit"))

----------------------------------------------------------------------------
(* The calculator.                                                          *)

\* Mutant: a token that is no number is pushed as NaN before the error.
parse_and_push_nan(s, token) ==
    LET r == parse_f64(token) IN
    IF r.ok THEN [stack |-> Append(s, r.v), res |-> "Ok"]
    ELSE [stack |-> Append(s, NaN), res |-> "ParsingError"]

\* Mutant: the literal replaces the top of the stack instead of growing it.
parse_and_push_replace(s, token) ==
    LET r == parse_f64(token) IN
    IF r.ok THEN [stack |-> Append(Pop(s), r.v), res |-> "Ok"]
    ELSE [stack |-> s, res |-> "ParsingError"]

parse_and_push(s, token) ==
    LET r == parse_f64(token) IN
    IF r.ok THEN [stack |-> Append(s, r.v), res |-> "Ok"]
    ELSE [stack |-> s, res |-> "ParsingError"]

\* Mutant: a word that is neither an operator nor a number is skipped.
parse_token_lenient(s, ops, token) ==
    IF token \in DOMAIN ops THEN OpFn(ops[token], s)
    ELSE IF parse_f64(token).ok THEN parse_and_push(s, token)
    ELSE [stack |-> s, res |-> "Ok"]

\* Mutant: a token that reads as a number is pushed without a look at the
\* registry.
parse_token_number_first(s, ops, token) ==
    IF parse_f64(token).ok THEN parse_and_push(s, token)
    ELSE IF token \in DOMAIN ops THEN OpFn(ops[token], s)
    ELSE parse_and_push(s, token)

parse_token(s, ops, token) ==
    IF token \in DOMAIN ops THEN OpFn(ops[token], s)
    ELSE parse_and_push(s, token)

\* Mutant: the loop remembers the first failure but goes on to the end of
\* the line.
RECURSIVE EvalLoop_continue(_, _, _, _)
EvalLoop_continue(s, ops, tokens, i) ==
    IF i > Len(tokens) THEN [stack |-> s, res |-> "Ok", at |-> 0, before |-> s]
    ELSE LET r == parse_token(s, ops, tokens[i])
             rest == EvalLoop_continue(r.stack, ops, tokens, i + 1)
         IN  IF r.res # "Ok"
             THEN [stack |-> rest.stack, res |-> r.res, at |-> i, before |-> s]
             ELSE rest

\* The loop of evaluate from token i on.  at is the position of the token that
\* failed (0 when none did) and before the stack that token was given.
RECURSIVE EvalLoop(_, _, _, _)
EvalLoop(s, ops, tokens, i) ==
    IF i > Len(tokens) THEN [stack |-> s, res |-> "Ok", at |-> 0, before |-> s]
    ELSE LET r == parse_token(s, ops, tokens[i]) IN
         IF r.res # "Ok"
         THEN [stack |-> r.stack, res |-> r.res, at |-> i, before |-> s]
         ELSE EvalLoop(r.stack, ops, tokens, i + 1)

\* Mutant: every line starts from an empty stack.
evaluate_fresh(s, ops, input) == EvalLoop(<<>>, ops, split_whitespace(input), 1)

evaluate(s, ops, input) == EvalLoop(s, ops, split_whitespace(input), 1)

\* Mutant: the bottom of the stack is returned.
top_first(s) == IF s = <<>> THEN [res |-> "None", val |-> <<>>]
                ELSE [res |-> "Some", val |-> <<s[1]>>]

top(s) == IF s = <<>> THEN [res |-> "None", val |-> <<>>]
          ELSE [res |-> "Some", val |-> <<s[Len(s)]>>]

new == [stack |-> <<>>, operators |-> default_operators]

\* Mutant: the default operators are merged into the given registry.
new_with_operators_merged(ops) ==
    [stack |-> <<>>,
     operators |-> [k \in DOMAIN ops \cup DOMAIN default_operators |->
                        IF k \in DOMAIN ops THEN ops[k] ELSE default_operators[k]]]

new_with_operators(ops) == [stack |-> <<>>, operators |-> ops]

----------------------------------------------------------------------------
(* Inputs of the exploration.                                               *)

Registries == {caller_operators}

\* Tokens tried as a line of their own: the symbols of the registry and of
\* the default registry, literals in several spellings, and words that are
\* no number.
SingleTokens(ops) ==
    DOMAIN ops \cup DOMAIN default_operators \cup
    { <<"0">>, <<"2">>, <<"-", "1">>, <<"+", "2">>, <<"2", ".">>,
      <<"2", "0", "e", "-", "1">>, <<".", "2", "E", "1">>, <<"-", "0">>,
      <<"i", "n", "f">>, <<"N", "a", "N">>,
      <<"g", "a", "r", "b", "a", "g", "e">>, <<".">>, <<"1", "e">>, <<"1", "x">>,
      <<"1", ".", "2", ".", "3">>, <<"-", "-", "1">> }

\* Tokens that lines of several tokens are made of: a literal, a word that
\* is no number, and "-" (an operator only where the registry binds it).
LineTokens == {<<"1">>, <<"x">>, <<"-">>}

TokenSeqs(T) == UNION { [1..n -> T] : n \in 0..MaxTokens }

\* The tokens joined by sep, as one sequence of characters.
RECURSIVE JoinFrom(_, _, _)
JoinFrom(tokens, sep, i) ==
    IF i > Len(tokens) THEN <<>>
    ELSE IF i = Len(tokens) THEN tokens[i]
    ELSE tokens[i] \o sep \o JoinFrom(tokens, sep, i + 1)

Join(tokens) == JoinFrom(tokens, <<" ">>, 1)

\* The same tokens the way read_line hands them over: indented, tabs between
\* them and the newline at the end.
Untidy(tokens) == <<" ">> \o JoinFrom(tokens, <<"\t", " ">>, 1) \o <<"\n">>

Lines(ops) ==
    SingleTokens(ops)
    \cup { Join(ts) : ts \in TokenSeqs(LineTokens) }
    \cup { Untidy(ts) : ts \in TokenSeqs({<<"1">>}) }
    \cup { <<" ">>, <<"\t", " ", "\r", "\n">> }

\* Values the exploration follows: NaN, the infinities and zeros, the small
\* integers (on which f64 arithmetic is exact), and the 10.0 and 12.0 of
\* the tests.
InRange(v) ==
    v.k \in {"nan", "pinf", "ninf", "nzero"} \/ (Abs(v.n) <= MaxNum /\ v.d = 1) \/ v \in {Ten, Fin(12, 1)}

StackInRange(s) == Len(s) <= MaxStack /\ \A i \in 1..Len(s) : InRange(s[i])

----------------------------------------------------------------------------
(* The state machine: one calculator and the calls made on it.  given is    *)
(* the registry the constructor was handed (the default one for new), last  *)
(* the record of the latest call: its name, its input, the stack it found,  *)
(* what it returned (res, and val for top) and, for evaluate, the failing   *)
(* token.  other is a second calculator and repl the REPL of main.rs; the   *)
(* specifications that are not about them leave them as Init sets them.    *)

Call(op, input, pre, res, val, at, before) ==
    [op |-> op, input |-> input, pre |-> pre, res |-> res, val |-> val,
     at |-> at, before |-> before]

InitNew ==
    /\ stack = new.stack
    /\ operators = new.operators
    /\ given = default_operators
    /\ last = Call("new", <<>>, <<>>, "Ok", <<>>, 0, <<>>)

InitNewWithOperators ==
    \E ops \in Registries :
        /\ stack = new_with_operators(ops).stack
        /\ operators = new_with_operators(ops).operators
        /\ given = ops
        /\ last = Call("new_with_operators", <<>>, <<>>, "Ok", <<>>, 0, <<>>)

\* The REPL before main runs: nothing read, nothing printed.  eof says that
\* the latest read_line found standard input at its end, printed is the
\* kind of the latest println, shown the value it showed (for the top of
\* the stack), err the error it named and panic the call that panicked.
NoRepl ==
    [pc |-> "off", eof |-> FALSE, printed |-> "nothing", shown |-> <<>>,
     err |-> "none", panic |-> "none"]

Init ==
    /\ InitNew \/ InitNewWithOperators
    /\ other = new
    /\ repl = NoRepl

\* calc.evaluate(input).  The code has no guard; the bound on the resulting
\* stack only keeps the exploration finite.
EvaluateUpTo(input, maxlen) ==
    \E r \in {evaluate(stack, operators, input)} :
    /\ Len(r.stack) <= maxlen
    /\ \A i \in 1..Len(r.stack) : InRange(r.stack[i])
    /\ stack' = r.stack
    /\ last' = Call("evaluate", input, stack, r.res, <<>>, r.at, r.before)
    /\ UNCHANGED <<operators, given, other, repl>>

Evaluate(input) == EvaluateUpTo(input, MaxStack)

\* calc.top().
Top ==
    LET r == top(stack) IN
    /\ last' = Call("top", <<>>, stack, r.res, r.val, 0, stack)
    /\ UNCHANGED <<stack, operators, given, other, repl>>

\* The caller reads the top between two lines, as the REPL does.
EvaluateLine ==
    /\ last.op # "evaluate"
    /\ \E input \in Lines(operators) : Evaluate(input)

Next == EvaluateLine \/ Top

Spec == Init /\ [][Next]_vars

\* Lines for a caller that evaluates one line right after the other: short
\* lines over LineTokens and the symbols the caller added to the registry.
ShortLines(ops) ==
    { Join(ts) : ts \in UNION { [1..n -> LineTokens] : n \in 0..(MaxTokens - 1) } }
    \cup (DOMAIN ops \ DOMAIN default_operators)

EvaluateNext == \E input \in ShortLines(operators) : Evaluate(input)

SpecCalls == Init /\ [][EvaluateNext]_vars

----------------------------------------------------------------------------
(* A caller that extends the registry of a calculator made by new(), as the *)
(* tests do with new_operator!(calc.operators, ...), and evaluates lines.   *)

\* Insertions a registry goes through before the exploration stops adding.
MaxInserts == 1

\* The operators callers define, as <<symbol, operator>>:
\*   new_operator!(calc.operators, "?", [], { 10.0 })
\*   new_operator!(calc.operators, "?", s, { s.pop(); Ok(()) })
\*   the block of "X", [_x, _y] { 0.0 }, bound to the default symbol "+"
\*   the operator yielding 10.0 bound to a symbol that reads as a number
\*   a raw operator that pops twice, failing at the first missing value
Insertions ==
    { << <<"?">>, FixedOp(0, "ten") >>,
      << <<"?">>, RawOp("pop") >>,
      << <<"+">>, FixedOp(2, "zero") >>,
      << <<"2">>, FixedOp(0, "ten") >>,
      << <<"d">>, RawOp("drop2") >> }

\* The symbols whose binding is not the one the calculator was made with.
Rebound ==
    { k \in DOMAIN operators : k \notin DOMAIN given \/ operators[k] # given[k] }

\* new_operator!(calc.operators, symbol, ...): $ops.insert($name, opfn).
InsertOp ==
    \E ins \in Insertions :
        /\ Cardinality(Rebound) < MaxInserts
        /\ operators' = Insert(operators, ins[1], ins[2])
        /\ last' = Call("insert", ins[1], stack, "Ok", <<ins[2]>>, 0, stack)
        /\ UNCHANGED <<stack, given, other, repl>>

\* Lines of the extending caller: lone tokens, and the lines of
\* tests::should_extend_default_operators_with_operators and
\* tests::should_be_possible_to_add_operator_that_operates_on_stack.
ExtLines ==
    { <<"2">>, <<"+">>, <<"-">>, <<"?">>, <<"d">>, <<"x">>,
      Join(<< <<"?">>, <<"2">>, <<"+">> >>),
      Join(<< <<"2">>, <<"2">>, <<"?">> >>) }

EvaluateExt == \E input \in ExtLines : EvaluateUpTo(input, MaxStack + 1)

InitExt == InitNew /\ other = new /\ repl = NoRepl

NextExt == InsertOp \/ EvaluateExt

SpecExt == InitExt /\ [][NextExt]_vars

----------------------------------------------------------------------------
(* Two calculators, each made by new(): this one (stack, operators) and the *)
(* other one (other.stack, other.operators).  The caller evaluates lines on *)
(* either and extends the registry of either, in any order.                 *)

TwoLines == { <<"2">>, <<"?">>, <<"+">> }

TwoInsertions == { << <<"?">>, FixedOp(0, "ten") >> }

EvaluateThis == \E input \in TwoLines : Evaluate(input)

\* Mutant: the registry is one map that all calculators share.
InsertThis_shared ==
    \E ins \in TwoInsertions :
        /\ operators' = Insert(operators, ins[1], ins[2])
        /\ other' = [other EXCEPT !.operators = operators']
        /\ last' = Call("insert", ins[1], stack, "Ok", <<ins[2]>>, 0, stack)
        /\ UNCHANGED <<stack, given, repl>>

\* new_operator!(this.operators, ...).
InsertThis ==
    \E ins \in TwoInsertions :
        /\ operators' = Insert(operators, ins[1], ins[2])
        /\ last' = Call("insert", ins[1], stack, "Ok", <<ins[2]>>, 0, stack)
        /\ UNCHANGED <<stack, given, other, repl>>

\* other.evaluate(input).
EvaluateOther ==
    \E input \in TwoLines :
        \E r \in {evaluate(other.stack, other.operators, input)} :
        /\ StackInRange(r.stack)
        /\ other' = [other EXCEPT !.stack = r.stack]
        /\ last' = Call("other.evaluate", input, other.stack, r.res, <<>>,
                        r.at, r.before)
        /\ UNCHANGED <<stack, operators, given, repl>>

\* new_operator!(other.operators, ...).
InsertOther ==
    \E ins \in TwoInsertions :
        /\ other' = [other EXCEPT
                        !.operators = Insert(other.operators, ins[1], ins[2])]
        /\ last' = Call("other.insert", ins[1], other.stack, "Ok", <<ins[2]>>,
                        0, other.stack)
        /\ UNCHANGED <<stack, operators, given, repl>>

NextTwo == EvaluateThis \/ InsertThis \/ EvaluateOther \/ InsertOther

SpecTwo == InitExt /\ [][NextTwo]_vars

----------------------------------------------------------------------------
(* The REPL of main.rs.  repl.pc is where main stands: "read" at the top of *)
(* the loop, "match" once repl_step has returned (its result is last.res),  *)
(* "exited" after a break and "panicked" after a panic (repl.panic names    *)
(* the call: the unwrap of the top, a print to a failing standard output,   *)
(* the flush or the read_line).                                             *)

\* Lines standard input delivers, newline included: short lines over a
\* literal, "-" and "q", a word that is no number, a quit between blanks,
\* and a last line without its newline.
ReplLines ==
    { Join(ts) \o <<"\n">> :
        ts \in UNION { [1..n -> {<<"1">>, <<"-">>, <<"q">>}] : n \in 0..(MaxTokens - 1) } }
    \cup { <<"x", "\n">>, <<" ", "q", "\t", "\n">>, <<"1">> }

\* main up to the loop: the registry with "q", the calculator, the banner
\* (or the panic of its println on a failing standard output).
InitRepl ==
    /\ stack = new_with_operators(main_operators).stack
    /\ operators = new_with_operators(main_operators).operators
    /\ given = main_operators
    /\ last = Call("new_with_operators", <<>>, <<>>, "Ok", <<>>, 0, <<>>)
    /\ other = new
    /\ repl \in { [NoRepl EXCEPT !.pc = "read", !.printed = "banner"],
                  [NoRepl EXCEPT !.pc = "panicked", !.panic = "print"] }

\* repl_step: the prompt, the flush, read_line, then calc.evaluate(&input).
\* The print, the flush and the read each panic when the stream fails (the
\* read also on bytes that are no UTF-8).  At the end of standard input
\* read_line leaves input empty; nothing keeps a later call from delivering
\* a line again, as a terminal does.  The prompt, which is no println, is
\* not recorded.
ReplStep ==
    /\ repl.pc = "read"
    /\ \/ \E input \in ReplLines \cup {<<>>} :
            \E r \in {evaluate(stack, operators, input)} :
            /\ StackInRange(r.stack)
            /\ stack' = r.stack
            /\ last' = Call("evaluate", input, stack, r.res, <<>>, r.at, r.before)
            /\ repl' = [repl EXCEPT !.pc = "match", !.eof = (input = <<>>)]
       \/ \E call \in {"print", "flush", "read_line"} :
            /\ repl' = [repl EXCEPT !.pc = "panicked", !.panic = call]
            /\ UNCHANGED <<stack, last>>
    /\ UNCHANGED <<operators, given, other>>

\* What println leaves: the line printed, or a panic on a failing stream.
Println(kind, val, e) ==
    { [repl EXCEPT !.printed = kind, !.shown = val, !.err = e],
      [repl EXCEPT !.pc = "panicked", !.panic = "print"] }

\* Mutant: Quit is reported like any other error.
MainMatch_quit_reported ==
    /\ repl.pc = "match"
    /\ IF last.res = "Ok"
       THEN LET t == top(stack) IN
            IF t.res = "None"
            THEN repl' = [repl EXCEPT !.pc = "panicked", !.panic = "unwrap"]
            ELSE \E p \in Println("top", t.val, repl.err) :
                    repl' = IF p.pc = "panicked" THEN p
                            ELSE [p EXCEPT !.pc = "read"]
       ELSE \E p \in Println("error", repl.shown, last.res) :
               repl' = IF p.pc = "panicked" THEN p
                       ELSE [p EXCEPT !.pc = "exited"]
    /\ UNCHANGED <<stack, operators, given, last, other>>

\* The match on the result of repl_step: break on Quit, print the unwrapped
\* top on Ok, print the error and break otherwise.
MainMatch ==
    /\ repl.pc = "match"
    /\ IF last.res = "Quit" THEN repl' = [repl EXCEPT !.pc = "exited"]
       ELSE IF last.res = "Ok"
       THEN LET t == top(stack) IN
            IF t.res = "None"
            THEN repl' = [repl EXCEPT !.pc = "panicked", !.panic = "unwrap"]
            ELSE \E p \in Println("top", t.val, repl.err) :
                    repl' = IF p.pc = "panicked" THEN p
                            ELSE [p EXCEPT !.pc = "read"]
       ELSE \E p \in Println("error", repl.shown, last.res) :
               repl' = IF p.pc = "panicked" THEN p
                       ELSE [p EXCEPT !.pc = "exited"]
    /\ UNCHANGED <<stack, operators, given, last, other>>

NextRepl == ReplStep \/ MainMatch

SpecRepl == InitRepl /\ [][NextRepl]_vars

\* The loop is sequential code: while main has a step to take, it takes it.
SpecReplFair == InitRepl /\ [][NextRepl]_vars /\ WF_vars(NextRepl)

----------------------------------------------------------------------------
(* Properties.  They read the record of the latest call: IsEval says it was *)
(* an evaluate call, Tokens are the tokens of its line.                     *)

IsEval == last.op = "evaluate"

Tokens == split_whitespace(last.input)

Failed == IsEval /\ last.res # "Ok"

\* The latest call evaluated the lone token tok, bound as the default
\* registry binds it.
DefaultOpCall(tok) ==
    /\ IsEval
    /\ last.input = tok
    /\ tok \in DOMAIN default_operators
    /\ tok \in DOMAIN operators
    /\ operators[tok] = default_operators[tok]

\* a OP b for the four default symbols.
Arith(tok, a, b) ==
    CASE tok = <<"+">> -> FAdd(a, b)
      [] tok = <<"-">> -> FSub(a, b)
      [] tok = <<"*">> -> FMul(a, b)
      [] tok = <<"/">> -> FDiv(a, b)

\* The stack after tokens 1..k of toks were applied to s one after the other.
RECURSIVE Applied(_, _, _, _)
Applied(s, ops, toks, k) ==
    IF k = 0 THEN s
    ELSE parse_token(Applied(s, ops, toks, k - 1), ops, toks[k]).stack

\* Tokens 1..k of toks all succeed when applied to s one after the other.
AllOk(s, ops, toks, k) ==
    \A j \in 1..k : parse_token(Applied(s, ops, toks, j - 1), ops, toks[j]).res = "Ok"

\* C1: with the default binding and a stack whose two topmost values are a
\* (below) and b (top), the lone token "+", "-", "*" or "/" succeeds and
\* leaves a OP b on top of the elements below them.
C1_OperandOrder ==
    \A tok \in DOMAIN default_operators :
        (DefaultOpCall(tok) /\ Len(last.pre) >= 2) =>
            LET n == Len(last.pre)
                a == last.pre[n - 1]
                b == last.pre[n]
            IN  /\ last.res = "Ok"
                /\ stack = Append(SubSeq(last.pre, 1, n - 2), Arith(tok, a, b))

\* "-" was evaluated on a stack ending in a, b with a - b different from b - a.
C1_Witness ==
    /\ DefaultOpCall(<<"-">>)
    /\ Len(last.pre) >= 2
    /\ last.res = "Ok"
    /\ LET n == Len(last.pre) IN
          /\ stack[Len(stack)] = FSub(last.pre[n - 1], last.pre[n])
          /\ stack[Len(stack)] # FSub(last.pre[n], last.pre[n - 1])

\* C2: with the default binding and a stack of 0 or 1 elements, "+", "-",
\* "*" and "/" fail with NotEnoughOperands and the stack is the one before.
C2_NotEnoughOperands ==
    \A tok \in DOMAIN default_operators :
        (DefaultOpCall(tok) /\ Len(last.pre) <= 1) =>
            /\ last.res = "NotEnoughOperands"
            /\ stack = last.pre

\* "+" failed on a stack of one element, which is still there.
C2_Witness ==
    /\ DefaultOpCall(<<"+">>)
    /\ Len(last.pre) = 1
    /\ last.res = "NotEnoughOperands"
    /\ stack = last.pre

\* C3, as stated: after a failed evaluate whose first failing token is
\* token k, the stack is the result of applying tokens 1..k-1 to the stack
\* held before the call.
C3_Original ==
    Failed =>
        /\ last.at \in 1..Len(Tokens)
        /\ AllOk(last.pre, operators, Tokens, last.at - 1)
        /\ stack = Applied(last.pre, operators, Tokens, last.at - 1)

\* C3, amended: evaluate goes left to right and stops at the first failing
\* token k: it returns that token's failure, and the stack is the result of
\* applying tokens 1..k-1 to the stack held before the call and then
\* whatever the failing token itself did; tokens k+1.. have no effect.
C3_StopsAtFirstFailure ==
    Failed =>
        /\ last.at \in 1..Len(Tokens)
        /\ AllOk(last.pre, operators, Tokens, last.at - 1)
        /\ LET s == Applied(last.pre, operators, Tokens, last.at - 1)
               r == parse_token(s, operators, Tokens[last.at])
           IN  /\ last.res = r.res
               /\ stack = r.stack
               /\ (Tokens[last.at] \notin DOMAIN operators
                     \/ operators[Tokens[last.at]].shape = "fixed") => stack = s

\* A line failed at a token that has a successful token before it and a
\* token that would have succeeded after it.
C3_Witness ==
    /\ Failed
    /\ last.at > 1
    /\ last.at < Len(Tokens)
    /\ stack # last.pre
    /\ parse_token(stack, operators, Tokens[last.at + 1]).res = "Ok"

\* C4, as stated: after a failed evaluate the stack is the stack the
\* failing token was given, whatever operator the token is bound to.
C4_Original == Failed => stack = last.before

\* C4, amended: after a failed evaluate whose failing token is no number or
\* is bound to a fixed-arity operator, the stack is the stack that token was
\* given; a raw operator that fails leaves the stack as it left it.
C4_NoPartialEffect ==
    Failed =>
        LET tok == Tokens[last.at] IN
        IF tok \in DOMAIN operators /\ operators[tok].shape = "raw"
        THEN stack = RawOpFn(operators[tok], last.before).stack
        ELSE stack = last.before

\* A fixed-arity operator failed on a non-empty stack after an earlier token
\* of the same line had succeeded.
C4_Witness ==
    /\ Failed
    /\ last.at > 1
    /\ Tokens[last.at] \in DOMAIN operators
    /\ operators[Tokens[last.at]].shape = "fixed"
    /\ last.before # <<>>
    /\ last.before # last.pre
    /\ stack = last.before

\* Words that are no floating-point literal.
NotNumbers ==
    { <<"x">>, <<"g", "a", "r", "b", "a", "g", "e">>, <<".">>, <<"1", "e">>,
      <<"1", "x">>, <<"1", ".", "2", ".", "3">>, <<"-", "-", "1">>,
      <<"+">>, <<"-">>, <<"*">>, <<"/">>, <<"?">>, <<"p">>, <<"d">> }

\* C5: when the first token of the line that does not succeed is neither a
\* key of the registry nor a number, evaluate fails at it with ParsingError
\* and that token leaves the stack as it found it.
C5_ParsingError ==
    IsEval =>
        \A j \in 1..Len(Tokens) :
            (/\ Tokens[j] \in NotNumbers \ DOMAIN operators
             /\ (last.at = 0 \/ last.at >= j)) =>
                /\ last.at = j
                /\ last.res = "ParsingError"
                /\ stack = last.before
                /\ stack = Applied(last.pre, operators, Tokens, j - 1)

\* "garbage" was evaluated on a non-empty stack.
C5_Witness ==
    /\ IsEval
    /\ last.input = <<"g", "a", "r", "b", "a", "g", "e">>
    /\ last.res = "ParsingError"
    /\ last.pre # <<>>
    /\ stack = last.pre

\* C6: the stack persists from one call to the next: when evaluate(l1) has
\* succeeded and evaluate(l2) is called next, the stack and the result of
\* the second call are those of the one call evaluate(l1 + " " + l2) on the
\* stack held before the first.
C6_Persistence ==
    [][(IsEval /\ last.res = "Ok" /\ last'.op = "evaluate" /\ last'.pre = stack) =>
          LET whole == evaluate(last.pre, operators,
                                last.input \o <<" ">> \o last'.input)
          IN  /\ stack' = whole.stack
              /\ last'.res = whole.res]_vars

\* "-" was evaluated on two values that earlier calls had left.
C6_Witness ==
    /\ IsEval
    /\ last.input = <<"-">>
    /\ Len(last.pre) >= 2
    /\ last.res = "Ok"
    /\ Len(stack) = Len(last.pre) - 1

\* Lines without a token.
BlankLines == { <<>>, <<" ">>, <<" ", "\n">>, <<"\t", " ", "\r", "\n">> }

\* C7: evaluate of an empty or whitespace-only line finds no token, succeeds
\* and leaves the stack, and so top(), as they were.
C7_BlankLine ==
    (IsEval /\ last.input \in BlankLines) =>
        /\ Tokens = <<>>
        /\ last.res = "Ok"
        /\ stack = last.pre
        /\ top(stack) = top(last.pre)

\* A line of tab, space, carriage return and newline was evaluated on a
\* non-empty stack.
C7_Witness ==
    /\ IsEval
    /\ last.input = <<"\t", " ", "\r", "\n">>
    /\ last.pre # <<>>
    /\ last.res = "Ok"
    /\ stack = last.pre

\* C8: top() changes neither the stack nor the registry; it returns the last
\* element of a non-empty stack and the empty outcome for an empty stack.
C8_Top ==
    /\ [](last.op = "top" =>
            /\ stack = last.pre
            /\ (stack = <<>> => (last.res = "None" /\ last.val = <<>>))
            /\ (stack # <<>> =>
                  (last.res = "Some" /\ last.val = <<stack[Len(stack)]>>)))
    /\ [][last'.op = "top" => (stack' = stack /\ operators' = operators)]_vars

\* top() was called on a stack of two different elements.
C8_Witness ==
    /\ last.op = "top"
    /\ Len(stack) = 2
    /\ stack[1] # stack[2]
    /\ last.val = <<stack[2]>>

\* Literals and the values they denote.
Literals ==
    { [t |-> <<"0">>, v |-> Fin(0, 1)], [t |-> <<"1">>, v |-> Fin(1, 1)],
      [t |-> <<"2">>, v |-> Fin(2, 1)], [t |-> <<"-", "1">>, v |-> Fin(-1, 1)],
      [t |-> <<"+", "2">>, v |-> Fin(2, 1)], [t |-> <<"2", ".">>, v |-> Fin(2, 1)],
      [t |-> <<"2", "0", "e", "-", "1">>, v |-> Fin(2, 1)],
      [t |-> <<".", "2", "E", "1">>, v |-> Fin(2, 1)],
      [t |-> <<"-", "0">>, v |-> NZero], [t |-> <<"i", "n", "f">>, v |-> PInf],
      [t |-> <<"N", "a", "N">>, v |-> NaN] }

\* C9: a literal that is no key of the registry, evaluated alone, succeeds
\* and puts its value on top of the unchanged earlier elements.
C9_Literal ==
    \A l \in Literals :
        (IsEval /\ last.input = l.t /\ l.t \notin DOMAIN operators) =>
            /\ last.res = "Ok"
            /\ stack = Append(last.pre, l.v)
            /\ top(stack).val = <<l.v>>

\* "20e-1" was evaluated on a non-empty stack whose top is not 2.
C9_Witness ==
    /\ IsEval
    /\ last.input = <<"2", "0", "e", "-", "1">>
    /\ last.pre # <<>>
    /\ last.pre[Len(last.pre)] # Fin(2, 1)
    /\ stack = Append(last.pre, Fin(2, 1))

\* C10: both constructors start with an empty stack, and the calculator
\* dispatches exactly the symbols of the registry it was given: a lone token
\* that is a key runs the operator bound to it there, and a default symbol
\* that is no key is not an operator (it fails to parse).
C10_Constructors ==
    /\ last.op \in {"new", "new_with_operators"} => stack = <<>>
    /\ last.op = "new" => operators = default_operators
    /\ DOMAIN operators = DOMAIN given
    /\ \A tok \in DOMAIN given \cup DOMAIN default_operators :
          (IsEval /\ last.input = tok) =>
              IF tok \in DOMAIN given
              THEN /\ stack = OpFn(given[tok], last.pre).stack
                   /\ last.res = OpFn(given[tok], last.pre).res
              ELSE /\ last.res = "ParsingError"
                   /\ stack = last.pre

\* On a calculator given a registry without "+", "+" was evaluated after the
\* registry's own "?" had pushed its 10.
C10_Witness ==
    /\ given = caller_operators
    /\ IsEval
    /\ last.input = <<"+">>
    /\ last.res = "ParsingError"
    /\ Len(stack) = 2
    /\ stack[1] = Ten
    /\ stack[2] = Ten

----------------------------------------------------------------------------
(* Properties of the extended registry.                                     *)

IsInsert == last.op = "insert"

\* What the latest evaluate call returned and left.
Outcome == [stack |-> stack, res |-> last.res]

ExtendedWithTen == operators = Insert(default_operators, <<"?">>, FixedOp(0, "ten"))

\* C11: once the fixed-arity operator without variables that yields 10.0 is
\* added to the default registry under "?", the token "?" succeeds on every
\* stack, the empty one included, and pushes exactly one value, and the line
\* "? 2 +" succeeds and leaves 12.0 on top of the stack it found.
C11_ExtensionComposes ==
    (IsEval /\ ExtendedWithTen) =>
        /\ last.input = <<"?">> =>
               last.res = "Ok" /\ stack = Append(last.pre, Ten)
        /\ last.input = Join(<< <<"?">>, <<"2">>, <<"+">> >>) =>
               last.res = "Ok" /\ stack = Append(last.pre, Fin(12, 1))

\* "? 2 +" was evaluated on the empty stack and left 12.0.
C11_Witness ==
    /\ IsEval
    /\ ExtendedWithTen
    /\ last.input = Join(<< <<"?">>, <<"2">>, <<"+">> >>)
    /\ last.pre = <<>>
    /\ last.res = "Ok"
    /\ stack = <<Fin(12, 1)>>

\* C12: an insertion always succeeds and replaces on collision: right after
\* it the symbol is bound to the new operator and every other symbol keeps
\* its binding, and an evaluate of the symbol that follows runs the new
\* operator, not the earlier binding.
C12_InsertReplaces ==
    [][ /\ last'.op = "insert" =>
              LET sym == last'.input
                  op == last'.val[1]
              IN  /\ last'.res = "Ok"
                  /\ DOMAIN operators' = DOMAIN operators \cup {sym}
                  /\ operators'[sym] = op
                  /\ \A k \in DOMAIN operators \ {sym} : operators'[k] = operators[k]
                  /\ stack' = stack
        /\ (IsInsert /\ last'.op = "evaluate" /\ last'.input = last.input) =>
              [stack |-> stack', res |-> last'.res] = OpFn(last.val[1], stack)
      ]_vars

\* "+" was bound anew to the block yielding 0.0 and then evaluated on a stack
\* whose two topmost values do not add up to zero.
C12_Witness ==
    /\ IsEval
    /\ last.input = <<"+">>
    /\ operators[<<"+">>] = FixedOp(2, "zero")
    /\ given[<<"+">>] = FixedOp(2, "add")
    /\ Len(last.pre) >= 2
    /\ FAdd(last.pre[Len(last.pre) - 1], last.pre[Len(last.pre)]) # Fin(0, 1)
    /\ stack[Len(stack)] = Fin(0, 1)

\* C14: the registry is looked at before the token is parsed: a lone token
\* that is a key of the registry runs the bound operator, also when it reads
\* as a number, and only a token that is no key is parsed and pushed.
C14_RegistryFirst ==
    (IsEval /\ Len(Tokens) = 1) =>
        LET tok == Tokens[1] IN
        /\ tok \in DOMAIN operators => Outcome = OpFn(operators[tok], last.pre)
        /\ tok \notin DOMAIN operators =>
               LET r == parse_f64(tok) IN
               IF r.ok THEN last.res = "Ok" /\ stack = Append(last.pre, r.v)
               ELSE last.res = "ParsingError" /\ stack = last.pre

\* The token "2", bound to the operator yielding 10.0, pushed 10.0 and not 2.0.
C14_Witness ==
    /\ IsEval
    /\ last.input = <<"2">>
    /\ <<"2">> \in DOMAIN operators
    /\ parse_f64(<<"2">>).ok
    /\ stack = Append(last.pre, Ten)

\* C15: a fixed-arity operator of arity n run on a stack of length L >= n
\* succeeds, hands the top of the stack to its first declared variable, the
\* value below to the second and so on, leaves L - n + 1 values, and leaves
\* the L - n values below the operands as they were.
C15_FixedArity ==
    \A tok \in DOMAIN operators :
        (/\ IsEval
         /\ last.input = tok
         /\ operators[tok].shape = "fixed"
         /\ Len(last.pre) >= operators[tok].arity) =>
            LET n == operators[tok].arity
                L == Len(last.pre)
                args == [j \in 1..n |-> last.pre[L - j + 1]]
            IN  /\ last.res = "Ok"
                /\ Len(stack) = L - n + 1
                /\ SubSeq(stack, 1, L - n) = SubSeq(last.pre, 1, L - n)
                /\ stack[L - n + 1] = Block(operators[tok].code, args)

\* "-" ran on three values, the two topmost different from each other.
C15_Witness ==
    /\ IsEval
    /\ last.input = <<"-">>
    /\ operators[<<"-">>] = FixedOp(2, "sub")
    /\ Len(last.pre) = 3
    /\ last.pre[2] # last.pre[3]
    /\ stack = <<last.pre[1], FSub(last.pre[2], last.pre[3])>>

\* C16: the engine neither checks an arity nor rolls back for a raw
\* operator: it runs on any stack, the empty one included, and the stack
\* after the token is what the operator left, whether it succeeded or
\* failed.  The operator that pops and ignores the outcome turns [2, 2] into
\* [2] and succeeds without a change on the empty stack; the operator that
\* pops twice leaves a lone value popped when it fails.
C16_RawOperatorFinal ==
    \A tok \in DOMAIN operators :
        (IsEval /\ last.input = tok /\ operators[tok].shape = "raw") =>
            LET L == Len(last.pre) IN
            CASE operators[tok].code = "pop" ->
                    /\ last.res = "Ok"
                    /\ stack = IF L = 0 THEN <<>> ELSE SubSeq(last.pre, 1, L - 1)
              [] operators[tok].code = "drop2" ->
                    IF L >= 2
                    THEN last.res = "Ok" /\ stack = SubSeq(last.pre, 1, L - 2)
                    ELSE last.res = "NotEnoughOperands" /\ stack = <<>>
              [] OTHER -> TRUE

\* The operator that pops twice failed on a lone value and left it popped.
C16_Witness ==
    /\ IsEval
    /\ last.input = <<"d">>
    /\ <<"d">> \in DOMAIN operators
    /\ operators[<<"d">>] = RawOp("drop2")
    /\ Len(last.pre) = 1
    /\ last.res = "NotEnoughOperands"
    /\ stack = <<>>

----------------------------------------------------------------------------
(* Properties of two calculators.                                           *)

\* C17: two calculators, each made by new() from its own default registry,
\* are independent: an evaluate or an insertion on one never changes the
\* stack or the registry of the other, and what a call does to a calculator
\* follows from that calculator's own stack and registry alone, so that its
\* final state is the one it would have without the calls on the other.
C17_Independent ==
    [][ /\ last'.op \in {"evaluate", "insert"} => other' = other
        /\ last'.op \in {"other.evaluate", "other.insert"} =>
               stack' = stack /\ operators' = operators
        /\ last'.op = "other.evaluate" =>
               LET r == evaluate(other.stack, other.operators, last'.input) IN
               /\ last'.res = r.res
               /\ other' = [stack |-> r.stack, operators |-> other.operators]
        /\ last'.op = "other.insert" =>
               other' = [stack |-> other.stack,
                         operators |-> Insert(other.operators, last'.input,
                                              last'.val[1])]
        /\ last'.op = "evaluate" =>
               LET r == evaluate(stack, operators, last'.input) IN
               last'.res = r.res /\ stack' = r.stack /\ operators' = operators
        /\ last'.op = "insert" =>
               /\ stack' = stack
               /\ operators' = Insert(operators, last'.input, last'.val[1])
      ]_vars

\* "?" is bound in this calculator, which used it, and the other one, with
\* values of its own on the stack, has just failed to parse it.
C17_Witness ==
    /\ last.op = "other.evaluate"
    /\ last.input = <<"?">>
    /\ last.res = "ParsingError"
    /\ <<"?">> \in DOMAIN operators
    /\ <<"?">> \notin DOMAIN other.operators
    /\ Len(stack) > 0 /\ stack[Len(stack)] = Ten
    /\ other.stack # <<>>

----------------------------------------------------------------------------
(* Properties of the REPL.                                                  *)

\* The position of the first "q" among toks, 0 when there is none.
FirstQuit(toks) ==
    IF \E j \in 1..Len(toks) : toks[j] = <<"q">>
    THEN CHOOSE j \in 1..Len(toks) :
            toks[j] = <<"q">> /\ \A i \in 1..(j - 1) : toks[i] # <<"q">>
    ELSE 0

\* C13: the "q" of the REPL fails with Quit on every stack and does not
\* touch it, and the tokens after it on the line are not evaluated; when
\* evaluate returns Quit the loop ends without printing an error, and once
\* it has ended no further line is read.
C13_Quit ==
    /\ [](IsEval =>
            LET j == FirstQuit(Tokens) IN
            (j > 0 /\ AllOk(last.pre, operators, Tokens, j - 1)) =>
                /\ last.res = "Quit"
                /\ last.at = j
                /\ stack = last.before
                /\ stack = Applied(last.pre, operators, Tokens, j - 1))
    /\ [][ /\ (repl.pc = "match" /\ last.res = "Quit") =>
                /\ repl'.pc = "exited"
                /\ repl'.printed = repl.printed
                /\ repl'.err = repl.err
                /\ stack' = stack
           /\ repl.pc = "exited" => (repl' = repl /\ last' = last)
         ]_vars

\* The line "q 1" met a stack with a value on it: the loop has ended, the
\* stack is as it was and the latest println is that of an earlier top.
C13_Witness ==
    /\ IsEval
    /\ last.input = <<"q", " ", "1", "\n">>
    /\ last.res = "Quit"
    /\ last.pre # <<>>
    /\ stack = last.pre
    /\ repl.pc = "exited"
    /\ repl.printed = "top"

\* C18: in the loop of the REPL, whenever evaluate of the line just read
\* returned Ok the stack is not empty, so that top().unwrap() never panics,
\* whatever lines a fresh session is given.
C18_TopNeverPanics ==
    /\ (repl.pc = "match" /\ last.res = "Ok") => stack # <<>>
    /\ repl.panic # "unwrap"

\* C19: once standard input is at its end, every further read yielding an
\* empty line, the loop eventually ends instead of going round forever.
C19_Terminates == <>[]repl.eof => <>(repl.pc \in {"exited", "panicked"})

====
